---- MODULE Spec2Model ----
(***************************************************************************)
(* A model of the Matrix class of src/index.ts.                            *)
(*                                                                         *)
(* Two program variables, "m" and "a", each hold a Matrix instance.  An    *)
(* instance is its fields rows, columns and array; array is a reference    *)
(* to a Float64Array living in a heap, so that two instances sharing one   *)
(* buffer is a state the model can express.  Every public method is an     *)
(* operator from a heap state to an outcome (the state it leaves and       *)
(* whether it threw) and an action applying it.                            *)
(*                                                                         *)
(* Doubles are modelled by small integers, on which double arithmetic is   *)
(* exact, together with NaN.                                               *)
(***************************************************************************)
EXTENDS Integers, Sequences, FiniteSets, TLC

\* Bounds of the model.
MaxDim == 2
MaxLen == 4
MaxVal == 1

\* The program variables holding Matrix instances, and the buffer addresses.
Obj == {"m", "a"}
Buf == {"b1", "b2", "b3"}

\* The value NaN of a double: what arithmetic yields on `undefined`, the
\* result of reading a Float64Array outside its bounds.
NaN == -1000

Val == 0 .. MaxVal
Num == Val \cup {NaN}
Dim == 0 .. MaxDim

VARIABLES rows, columns, array, heap, last

vars == <<rows, columns, array, heap, last>>

\* The heap state the operators work on.
State == [rows |-> rows, columns |-> columns, array |-> array, heap |-> heap]

-----------------------------------------------------------------------------
\* Double arithmetic.
FAdd(x, y) == IF x = NaN \/ y = NaN THEN NaN ELSE x + y
FSub(x, y) == IF x = NaN \/ y = NaN THEN NaN ELSE x - y
FMul(x, y) == IF x = NaN \/ y = NaN THEN NaN ELSE x * y

\* arr[i] of a Float64Array, i counted from 0: NaN (from undefined) outside.
Get(arr, i) == IF i >= 0 /\ i < Len(arr) THEN arr[i + 1] ELSE NaN

\* arr[i] = v of a Float64Array: ignored outside its bounds.
Put(arr, i, v) == IF i >= 0 /\ i < Len(arr) THEN [arr EXCEPT ![i + 1] = v] ELSE arr

\* new Float64Array(n): n zeroes.
Zeroes(n) == [i \in 1 .. n |-> 0]

\* An address no instance refers to: where an allocation puts its array.
NewBuf(st) == CHOOSE b \in Buf : \A o \in Obj : st.array[o] # b

\* Addresses are not observable: instances are kept at fixed addresses ("m"
\* at b1, "a" at b2 unless it shares the buffer of "m") and unreferenced
\* arrays are collected.
Canon(st) ==
    LET bm == st.array["m"]
        ba == st.array["a"]
    IN  [rows    |-> st.rows,
         columns |-> st.columns,
         array   |-> [o \in Obj |-> IF o = "m" \/ ba = bm THEN "b1" ELSE "b2"],
         heap    |-> [b \in Buf |-> CASE b = "b1" -> st.heap[bm]
                                      [] b = "b2" -> IF ba = bm THEN <<>> ELSE st.heap[ba]
                                      [] OTHER    -> <<>>]]

\* How a call ends: the state it leaves, and whether it threw.
Ok(st)    == [st |-> st, threw |-> FALSE]
Throw(st) == [st |-> st, threw |-> TRUE]

\* The argument of set: another matrix, or an array / typed array.
MatrixArg(o) == [ref |-> o]
RawArg(s)    == [elems |-> s]
IsMatrix(a)  == "ref" \in DOMAIN a

-----------------------------------------------------------------------------
\* this.array = new Float64Array(elems): a fresh copy of elems.
assignArray(st, t, elems) ==
    LET b == NewBuf(st)
    IN  [st EXCEPT !.array[t] = b, !.heap[b] = elems]

\* constructor(rows, columns), the new instance bound to variable t.
Matrix(st, t, r, c) ==
    assignArray([st EXCEPT !.rows[t] = r, !.columns[t] = c], t, Zeroes(r * c))

\* set(a) that keeps the argument's array instead of copying it.
setShared(st, t, a) ==
    IF IsMatrix(a)
    THEN IF st.rows[t] # st.rows[a.ref] \/ st.columns[t] # st.columns[a.ref]
         THEN Throw(st)
         ELSE Ok([st EXCEPT !.array[t] = st.array[a.ref]])
    ELSE Ok(assignArray(st, t, a.elems))

\* set(a) that throws on an array of another length.
setStrict(st, t, a) ==
    IF IsMatrix(a)
    THEN IF st.rows[t] # st.rows[a.ref] \/ st.columns[t] # st.columns[a.ref]
         THEN Throw(st)
         ELSE Ok(assignArray(st, t, st.heap[st.array[a.ref]]))
    ELSE IF Len(st.heap[st.array[t]]) # Len(a.elems)
         THEN Throw(st)
         ELSE Ok(assignArray(st, t, a.elems))

\* set(a).  A matrix of other dimensions throws; an array of another length
\* only warns (console.warn) and is installed all the same.
set(st, t, a) ==
    IF IsMatrix(a)
    THEN IF st.rows[t] # st.rows[a.ref] \/ st.columns[t] # st.columns[a.ref]
         THEN Throw(st)
         ELSE Ok(assignArray(st, t, st.heap[st.array[a.ref]]))
    ELSE Ok(assignArray(st, t, a.elems))

\* t = s.clone(): new Matrix(this.rows, this.columns).set(this.array).
clone(st, t, s) ==
    LET made == Matrix(st, t, st.rows[s], st.columns[s])
    IN  set(made, t, RawArg(made.heap[st.array[s]]))

\* The callbacks handed to map: predicate(x, i).
Pred(p, x, i) ==
    CASE p.kind = "zero"   -> 0
      [] p.kind = "succ"   -> FAdd(x, 1)
      [] p.kind = "index"  -> i
      [] p.kind = "random" -> p.draws[i + 1]

\* map(predicate): this.array = this.array.map(predicate), a new typed array.
map(st, t, p) ==
    LET old == st.heap[st.array[t]]
    IN  Ok(assignArray(st, t, [i \in DOMAIN old |-> Pred(p, old[i], i - 1)]))

\* randomize(): map(() => Math.random()); draws are the values drawn.
randomize(st, t, draws) == map(st, t, [kind |-> "random", draws |-> draws])

\* x op y for the compound assignments +=, -=, *=.
Arith(op, x, y) ==
    CASE op = "+" -> FAdd(x, y)
      [] op = "-" -> FSub(x, y)
      [] op = "*" -> FMul(x, y)

\* this.array.forEach((_, i) => this.array[i] op= a.array[i]) from index i on,
\* in place: b is this.array, ba is a.array (the same address when aliased).
RECURSIVE forEachArith(_, _, _, _, _)
forEachArith(hp, b, ba, op, i) ==
    IF i >= Len(hp[b])
    THEN hp
    ELSE forEachArith([hp EXCEPT ![b] = Put(hp[b], i, Arith(op, Get(hp[b], i), Get(hp[ba], i)))],
                      b, ba, op, i + 1)

\* The shared body with the shape check after the loop.
elementwiseLate(st, t, a, op) ==
    LET done == [st EXCEPT !.heap = forEachArith(st.heap, st.array[t], st.array[a], op, 0)]
    IN  IF st.rows[t] # st.rows[a] \/ st.columns[t] # st.columns[a]
        THEN Throw(done)
        ELSE Ok(done)

\* The body shared by add, subtract and hadamardProduct.
elementwise(st, t, a, op) ==
    IF st.rows[t] # st.rows[a] \/ st.columns[t] # st.columns[a]
    THEN Throw(st)
    ELSE Ok([st EXCEPT !.heap = forEachArith(st.heap, st.array[t], st.array[a], op, 0)])

add(st, t, a)             == elementwise(st, t, a, "+")

\* subtract pasted from add with the operator left as it was.
subtractAsAdd(st, t, a)   == elementwise(st, t, a, "+")

subtract(st, t, a)        == elementwise(st, t, a, "-")
hadamardProduct(st, t, a) == elementwise(st, t, a, "*")

\* this.array.forEach((_, i) => this.array[i] *= s) from index i on.
RECURSIVE forEachScale(_, _, _)
forEachScale(arr, s, i) ==
    IF i >= Len(arr)
    THEN arr
    ELSE forEachScale(Put(arr, i, FMul(Get(arr, i), s)), s, i + 1)

multiplyByScalar(st, t, s) ==
    Ok([st EXCEPT !.heap[st.array[t]] = forEachScale(st.heap[st.array[t]], s, 0)])

\* The k loop of multiply: value += this.array[iR + k] * a.array[k * a.columns + j].
RECURSIVE mulK(_, _, _, _, _, _)
mulK(st, t, a, iR, j, k) ==
    IF k = 0
    THEN 0
    ELSE FAdd(mulK(st, t, a, iR, j, k - 1),
              FMul(Get(st.heap[st.array[t]], iR + (k - 1)),
                   Get(st.heap[st.array[a]], (k - 1) * st.columns[a] + j)))

\* The j loop with iR = i * a.columns.
RECURSIVE mulJStride(_, _, _, _, _, _)
mulJStride(st, t, a, result, i, j) ==
    IF j >= st.columns[a]
    THEN result
    ELSE mulJStride(st, t, a,
                    Put(result, i * st.columns[a] + j,
                        mulK(st, t, a, i * st.columns[a], j, st.rows[a])),
                    i, j + 1)

\* The j loop: result[iC + j] = value, for j up to a.columns.
RECURSIVE mulJ(_, _, _, _, _, _)
mulJ(st, t, a, result, i, j) ==
    IF j >= st.columns[a]
    THEN result
    ELSE mulJ(st, t, a,
              Put(result, i * st.columns[a] + j,
                  mulK(st, t, a, i * st.rows[a], j, st.rows[a])),
              i, j + 1)

\* The i loop, for i up to this.rows.
RECURSIVE mulI(_, _, _, _, _)
mulI(st, t, a, result, i) ==
    IF i >= st.rows[t]
    THEN result
    ELSE mulI(st, t, a, mulJ(st, t, a, result, i, 0), i + 1)

\* multiply(a) writing each value into this.array as soon as it is computed.
RECURSIVE inPlaceJ(_, _, _, _, _)
inPlaceJ(st, t, a, i, j) ==
    IF j >= st.columns[a]
    THEN st
    ELSE inPlaceJ([st EXCEPT !.heap[st.array[t]] =
                       Put(st.heap[st.array[t]], i * st.columns[a] + j,
                           mulK(st, t, a, i * st.rows[a], j, st.rows[a]))],
                  t, a, i, j + 1)

RECURSIVE inPlaceI(_, _, _, _)
inPlaceI(st, t, a, i) ==
    IF i >= st.rows[t]
    THEN st
    ELSE inPlaceI(inPlaceJ(st, t, a, i, 0), t, a, i + 1)

multiplyInPlace(st, t, a) ==
    IF st.columns[t] # st.rows[a]
    THEN Throw(st)
    ELSE LET done == inPlaceI(st, t, a, 0)
         IN  set([done EXCEPT !.columns[t] = st.columns[a]], t,
                 RawArg([i \in 1 .. st.rows[t] * st.columns[a] |->
                            Get(done.heap[done.array[t]], i - 1)]))

\* multiply(a): the product is built in a local array, then this.columns is
\* set and the array installed by set(result).
multiply(st, t, a) ==
    IF st.columns[t] # st.rows[a]
    THEN Throw(st)
    ELSE LET result == mulI(st, t, a, Zeroes(st.rows[t] * st.columns[a]), 0)
         IN  set([st EXCEPT !.columns[t] = st.columns[a]], t, RawArg(result))

\* The loops of transpose: result[j * rows + i] = this.array[i * columns + j].
RECURSIVE trJ(_, _, _, _, _)
trJ(st, t, result, i, j) ==
    IF j >= st.columns[t]
    THEN result
    ELSE trJ(st, t,
             Put(result, j * st.rows[t] + i,
                 Get(st.heap[st.array[t]], i * st.columns[t] + j)),
             i, j + 1)

RECURSIVE trI(_, _, _, _)
trI(st, t, result, i) ==
    IF i >= st.rows[t]
    THEN result
    ELSE trI(st, t, trJ(st, t, result, i, 0), i + 1)

\* transpose(): rows and columns are swapped, then set(result).
transpose(st, t) ==
    LET result == trI(st, t, Zeroes(st.rows[t] * st.columns[t]), 0)
    IN  set([st EXCEPT !.rows[t] = st.columns[t], !.columns[t] = st.rows[t]],
            t, RawArg(result))

-----------------------------------------------------------------------------
\* The inputs of the calls.  RawInputs are all arrays within the bounds,
\* RawSamples the constant ones; RandomVals are the values of Val in the
\* range [0, 1) of Math.random(); Preds are x => 0, x => x + 1, (x, i) => i.
SeqsUpTo(S, n) == UNION {[1 .. k -> S] : k \in 0 .. n}
RawInputs  == SeqsUpTo(Val, MaxLen)
RawSamples == {[i \in 1 .. k |-> v] : k \in 0 .. MaxLen, v \in Val}
Scalars    == Val
RandomVals == {v \in Val : v < 1}
Preds      == {[kind |-> "zero"], [kind |-> "succ"], [kind |-> "index"]}

\* The states the model keeps: arrays no longer than MaxLen, elements in Num.
InRange(st) ==
    \A o \in Obj : /\ Len(st.heap[st.array[o]]) <= MaxLen
                   /\ \A i \in DOMAIN st.heap[st.array[o]] : st.heap[st.array[o]][i] \in Num

\* A call ending as r becomes the next state.  last records the call: the
\* method, the receiver, the argument and whether it threw.
Do(r, op, t, arg) ==
    /\ InRange(r.st)
    /\ LET c == Canon(r.st)
       IN  /\ rows' = c.rows
           /\ columns' = c.columns
           /\ array' = c.array
           /\ heap' = c.heap
    /\ last' = [op |-> op, self |-> t, arg |-> arg, threw |-> r.threw]

\* No instance yet.
Blank ==
    [rows    |-> [o \in Obj |-> 0],
     columns |-> [o \in Obj |-> 0],
     array   |-> [o \in Obj |-> IF o = "m" THEN "b1" ELSE "b2"],
     heap    |-> [b \in Buf |-> <<>>]]

\* new Matrix(r, c).set(s) bound to t.
Filled(st, t, r, c, s) == set(Matrix(st, t, r, c), t, RawArg(s)).st

\* The state st is where the run starts.
StartAt(st) ==
    /\ rows = Canon(st).rows
    /\ columns = Canon(st).columns
    /\ array = Canon(st).array
    /\ heap = Canon(st).heap
    /\ last = [op |-> "init", self |-> "m", arg |-> "none", threw |-> FALSE]

\* Both instances constructed: m = new Matrix(rm, cm), a = new Matrix(ra, ca).
Init ==
    \E rm \in Dim, cm \in Dim, ra \in Dim, ca \in Dim :
       /\ rm * cm <= MaxLen
       /\ ra * ca <= MaxLen
       /\ StartAt(Matrix(Matrix(Blank, "m", rm, cm), "a", ra, ca))

\* Both instances constructed and filled with arrays of their own length.
InitFilled ==
    \E rm \in Dim, cm \in Dim, ra \in Dim, ca \in Dim :
       /\ rm * cm <= MaxLen
       /\ ra * ca <= MaxLen
       /\ \E sm \in [1 .. rm * cm -> Val], sa \in [1 .. ra * ca -> Val] :
             StartAt(Filled(Filled(Blank, "m", rm, cm, sm), "a", ra, ca, sa))

New(t) ==
    \E r \in Dim, c \in Dim :
       /\ r * c <= MaxLen
       /\ Do(Ok(Matrix(State, t, r, c)), "new", t, "none")

Clone(t, s) == Do(clone(State, t, s), "clone", t, s)

SetMatrix(t, a) == Do(set(State, t, MatrixArg(a)), "set", t, a)

\* t.set(s) with the array s.
SetRaw(t, s) == Do(set(State, t, RawArg(s)), "set", t, "raw")

\* The caller passes an array of the length of the receiver's array.
SetRawFit(t) == \E s \in RawSamples : Len(s) = Len(heap[array[t]]) /\ SetRaw(t, s)

\* The caller passes an array of any length.
SetRawAny(t) == \E s \in RawInputs : SetRaw(t, s)

Map(t) == \E p \in Preds : Do(map(State, t, p), "map", t, "none")

Randomize(t) ==
    \E draws \in [1 .. Len(heap[array[t]]) -> RandomVals] :
       Do(randomize(State, t, draws), "randomize", t, "none")

Add(t, a) == Do(add(State, t, a), "add", t, a)

Subtract(t, a) == Do(subtract(State, t, a), "subtract", t, a)

HadamardProduct(t, a) == Do(hadamardProduct(State, t, a), "hadamardProduct", t, a)

MultiplyByScalar(t) ==
    \E s \in Scalars : Do(multiplyByScalar(State, t, s), "multiplyByScalar", t, "none")

Multiply(t, a) == Do(multiply(State, t, a), "multiply", t, a)

Transpose(t) == Do(transpose(State, t), "transpose", t, "none")

\* The calls taking another matrix, on "m", with "a" or "m" itself.
Binary ==
    \E a \in Obj :
       \/ SetMatrix("m", a)
       \/ Add("m", a)
       \/ Subtract("m", a)
       \/ HadamardProduct("m", a)
       \/ Multiply("m", a)

\* A client that calls every method on "m"; "a" is constructed, cloned from
\* "m" or set from "m", and "m" may be cloned from "a".  Arrays handed to set
\* have the length of the receiver's array.
Next ==
    \/ New("a")
    \/ Clone("a", "m")
    \/ SetMatrix("a", "m")
    \/ New("m")
    \/ SetRawFit("m")
    \/ Map("m")
    \/ Randomize("m")
    \/ MultiplyByScalar("m")
    \/ Transpose("m")
    \/ Clone("m", "a")
    \/ Binary

Spec == Init /\ [][Next]_vars

\* A client that fills both instances and then only combines them.
NextArith == Binary \/ Transpose("m")

SpecArith == InitFilled /\ [][NextArith]_vars

\* "m" constructed and filled with an array of its own length; "a" empty.
InitSelf ==
    \E rm \in Dim, cm \in Dim :
       /\ rm * cm <= MaxLen
       /\ \E sm \in [1 .. rm * cm -> Val] :
             StartAt(Matrix(Filled(Blank, "m", rm, cm, sm), "a", 0, 0))

\* A client that hands "m" to its own methods.
NextSelf ==
    \/ SetMatrix("m", "m")
    \/ Add("m", "m")
    \/ Subtract("m", "m")
    \/ HadamardProduct("m", "m")
    \/ Multiply("m", "m")

SpecSelf == InitSelf /\ [][NextSelf]_vars

\* A client that hands "m" arrays of any length; "a" is only constructed.
NextRaw ==
    \/ New("a")
    \/ New("m")
    \/ SetRawAny("m")
    \/ Map("m")
    \/ Randomize("m")
    \/ MultiplyByScalar("m")
    \/ Transpose("m")
    \/ Binary

SpecRaw == Init /\ [][NextRaw]_vars

-----------------------------------------------------------------------------
\* What is observable of an instance.
Elems(o) == heap[array[o]]
WellFormed(o) == Len(Elems(o)) = rows[o] * columns[o]
Other(o) == IF o = "m" THEN "a" ELSE "m"
ElementwiseOps == {"add", "subtract", "hadamardProduct"}
ShapeErrorOps == ElementwiseOps \cup {"set", "multiply"}

\* C1: after any sequence of public operations the buffer length of every
\* instance equals rows * columns.
BufferLengthIsRowsTimesColumns ==
    \A o \in Obj : Len(Elems(o)) = rows[o] * columns[o]

\* C2: when set(Matrix), add, subtract, hadamardProduct or multiply throws, the
\* shapes were unequal (for multiply: receiver.columns # a.rows) and the
\* receiver's rows, columns and elements are what they were before the call.
ShapeErrorLeavesReceiver ==
    [][(last'.threw /\ last'.op \in ShapeErrorOps) =>
          /\ last'.arg \in Obj
          /\ IF last'.op = "multiply"
             THEN columns[last'.self] # rows[last'.arg]
             ELSE \/ rows[last'.self] # rows[last'.arg]
                  \/ columns[last'.self] # columns[last'.arg]
          /\ rows'[last'.self] = rows[last'.self]
          /\ columns'[last'.self] = columns[last'.self]
          /\ heap'[array'[last'.self]] = Elems(last'.self)]_vars

\* A shape error has been thrown at a receiver holding a non-zero element.
ShapeErrorThrown ==
    /\ last.threw
    /\ last.op \in ShapeErrorOps
    /\ \E i \in DOMAIN Elems(last.self) : Elems(last.self)[i] # 0

\* C3: set with an array whose length differs from the receiver's buffer
\* length throws and does not replace the buffer.
SetRawMismatchThrows ==
    [][\A s \in RawInputs :
          (SetRaw("m", s) /\ Len(s) # Len(Elems("m"))) =>
             (last'.threw /\ heap'[array'["m"]] = Elems("m"))]_vars

\* The sum over k < n of x[i * n + k] * y[k * c + j], in double arithmetic.
RECURSIVE DotSum(_, _, _, _, _, _, _)
DotSum(x, y, i, j, n, c, k) ==
    IF k = 0
    THEN 0
    ELSE FAdd(DotSum(x, y, i, j, n, c, k - 1),
              FMul(x[i * n + (k - 1) + 1], y[(k - 1) * c + j + 1]))

\* C4: multiply of an r x n receiver by an n x c argument, both with buffers
\* of length rows * columns, succeeds and leaves shape r x c and, at flat
\* index i * c + j, the sum over k of old_self[i * n + k] * a[k * c + j];
\* with receiver.columns # a.rows it throws.
MultiplyIsMatrixProduct ==
    [][last'.op = "multiply" =>
          LET t == last'.self
              a == last'.arg
              r == rows[t]
              n == columns[t]
              c == columns[a]
          IN  IF n # rows[a]
              THEN last'.threw
              ELSE (WellFormed(t) /\ WellFormed(a)) =>
                      /\ ~last'.threw
                      /\ rows'[t] = r
                      /\ columns'[t] = c
                      /\ Len(heap'[array'[t]]) = r * c
                      /\ \A i \in 0 .. r - 1, j \in 0 .. c - 1 :
                            heap'[array'[t]][i * c + j + 1]
                               = DotSum(Elems(t), Elems(a), i, j, n, c, n)]_vars

\* m has just been multiplied by a 2 x 2 argument into a 2 x 2 product with
\* both zero and non-zero elements.
MultipliedTwoByTwo ==
    /\ last.op = "multiply" /\ last.arg = "a" /\ ~last.threw
    /\ rows["m"] = 2 /\ columns["m"] = 2
    /\ rows["a"] = 2 /\ columns["a"] = 2
    /\ Elems("m") = <<0, 1, 1, 0>>
    /\ Elems("a") = <<0, 1, 1, 0>>

\* C5: transpose never fails and leaves rows = c, columns = r and a buffer of
\* the same length with the element at j * r + i equal to the old element
\* at i * c + j.
TransposeMovesElements ==
    [][last'.op = "transpose" =>
          LET t == last'.self
              r == rows[t]
              c == columns[t]
          IN  /\ ~last'.threw
              /\ rows'[t] = c
              /\ columns'[t] = r
              /\ Len(heap'[array'[t]]) = Len(Elems(t))
              /\ \A i \in 0 .. r - 1, j \in 0 .. c - 1 :
                    Get(heap'[array'[t]], j * r + i) = Get(Elems(t), i * c + j)]_vars

\* C6: calling transpose twice restores rows, columns and every element.
TransposeTwiceRestores ==
    LET twice == transpose(transpose(State, "m").st, "m").st
    IN  /\ twice.rows["m"] = rows["m"]
        /\ twice.columns["m"] = columns["m"]
        /\ twice.heap[twice.array["m"]] = Elems("m")

\* C7: no two instances share a buffer; clone gives the rows, columns and
\* elements of its source; and a call changes the rows, columns and elements
\* of no instance but its receiver.
InstancesAreIndependent ==
    [][/\ array'["m"] # array'["a"]
       /\ \A o \in Obj :
             o # last'.self =>
                /\ rows'[o] = rows[o]
                /\ columns'[o] = columns[o]
                /\ heap'[array'[o]] = Elems(o)
       /\ (last'.op = "clone" =>
             /\ ~last'.threw
             /\ rows'[last'.self] = rows[last'.arg]
             /\ columns'[last'.self] = columns[last'.arg]
             /\ heap'[array'[last'.self]] = Elems(last'.arg))]_vars

\* a has just been cloned from m, copying a non-zero element.
CloneMade ==
    /\ last.op = "clone" /\ last.self = "a" /\ last.arg = "m" /\ ~last.threw
    /\ Elems("a") = Elems("m")
    /\ \E i \in DOMAIN Elems("a") : Elems("a")[i] # 0

\* C8: add, subtract and hadamardProduct with an argument of the receiver's
\* shape succeed and leave, at every flat index i, old_self[i] + a[i],
\* old_self[i] - a[i] or old_self[i] * a[i], with rows, columns and the
\* buffer length unchanged.
ElementwiseIsPointwise ==
    [][(/\ last'.op \in ElementwiseOps
        /\ rows[last'.self] = rows[last'.arg]
        /\ columns[last'.self] = columns[last'.arg]) =>
          LET t == last'.self
              a == last'.arg
              sign == CASE last'.op = "add" -> "+"
                        [] last'.op = "subtract" -> "-"
                        [] last'.op = "hadamardProduct" -> "*"
          IN  /\ ~last'.threw
              /\ rows'[t] = rows[t]
              /\ columns'[t] = columns[t]
              /\ Len(heap'[array'[t]]) = Len(Elems(t))
              /\ \A i \in 0 .. Len(Elems(t)) - 1 :
                    Get(heap'[array'[t]], i)
                       = Arith(sign, Get(Elems(t), i), Get(Elems(a), i))]_vars

\* a has just been subtracted from m, and a holds a non-zero element.
SubtractedNonZero ==
    /\ last.op = "subtract" /\ last.arg = "a" /\ ~last.threw
    /\ \E i \in DOMAIN Elems("a") : Elems("a")[i] # 0

\* C9: rows and columns of an instance change only in multiply and
\* transpose, which then do not throw and leave a buffer of length
\* rows * columns for the new shape.  (new and clone bind a new instance.)
ShapeChangesWithBuffer ==
    [][\A o \in Obj :
          (rows'[o] # rows[o] \/ columns'[o] # columns[o]) =>
             /\ last'.self = o
             /\ \/ last'.op \in {"new", "clone"}
                \/ /\ last'.op \in {"multiply", "transpose"}
                   /\ ~last'.threw
                   /\ Len(heap'[array'[o]]) = rows'[o] * columns'[o]]_vars

\* m has just been multiplied by a non-square a, which changed its columns
\* and the length of its buffer.
MultiplyChangedShape ==
    /\ last.op = "multiply" /\ last.arg = "a" /\ ~last.threw
    /\ rows["a"] # columns["a"]
    /\ Len(Elems("m")) > 0

\* The call of method op.
Call(op, st, t, a) ==
    CASE op = "add"             -> add(st, t, a)
      [] op = "subtract"        -> subtract(st, t, a)
      [] op = "hadamardProduct" -> hadamardProduct(st, t, a)
      [] op = "multiply"        -> multiply(st, t, a)

\* What a call ending as r leaves of the receiver t.
Outcome(r, t) == <<r.threw, r.st.rows[t], r.st.columns[t], r.st.heap[r.st.array[t]]>>

\* C10: add, subtract, hadamardProduct and, for a square receiver, multiply
\* with the receiver as its own argument leave the receiver as the same call
\* with a clone of it, taken before the call, leaves it.
SelfArgumentAsClone ==
    [][(/\ last'.op \in ElementwiseOps \cup {"multiply"}
        /\ last'.arg = last'.self
        /\ (rows[last'.self] = columns[last'.self] \/ last'.op # "multiply")) =>
          Outcome(Call(last'.op, clone(State, Other(last'.self), last'.self).st,
                       last'.self, Other(last'.self)), last'.self)
             = <<last'.threw, rows'[last'.self], columns'[last'.self],
                 heap'[array'[last'.self]]>>]_vars

\* A 2 x 2 matrix has just been multiplied by itself into a product with
\* both zero and non-zero elements.
SquaredTwoByTwo ==
    /\ last.op = "multiply" /\ last.arg = "m" /\ last.self = "m" /\ ~last.threw
    /\ rows["m"] = 2 /\ columns["m"] = 2
    /\ Elems("m") = <<1, 0, 0, 1>>

====
